---------------------------- MODULE Spec2Model ----------------------------
(***************************************************************************)
(* Model of gravity_index.py (GravityIndexAnalyzer): the link graph built  *)
(* by scan_vault, the PageRank iteration of calculate_pagerank, the        *)
(* percentile anchor get_95th_percentile and the scoring and ranking of    *)
(* calculate_gravity_index.                                                *)
(*                                                                         *)
(* Note identifiers (file stems, link targets) are modelled as naturals;   *)
(* the order of the naturals stands for the order of the identifier        *)
(* strings (1 = "A", 2 = "B", 3 = "C", ...).                               *)
(*                                                                         *)
(* A dict is a function whose DOMAIN is its key set; Get is dict.get with  *)
(* set() as the default, which is how the code reads links and backlinks.  *)
(***************************************************************************)
EXTENDS Integers, Sequences, FiniteSets, TLC

VARIABLES
    notes,          \* self.notes: the note names backed by a markdown file
    links,          \* self.links: note -> set of link targets
    backlinks,      \* self.backlinks: note -> set of linking notes
    all_notes,      \* self.all_notes
    pc,             \* position of the run
    pending,        \* scan_vault: files of self.notes not yet read
    cur,            \* scan_vault: the file being read (0: none)
    nlinks,         \* scan_vault: wiki links processed so far
    lastLink,       \* scan_vault: <<note_name, link_target>> processed last
    iterations,     \* calculate_pagerank: the iterations argument
    round,          \* calculate_pagerank: rounds completed
    pagerank,       \* calculate_pagerank: the previous round's ranks
    new_pagerank,   \* calculate_pagerank: the ranks of the round in progress
    contributors,   \* calculate_pagerank: linking notes whose rank was added
    p95_values,     \* get_95th_percentile: the values argument
    p95_result,     \* get_95th_percentile: the value returned
    percentiles,    \* calculate_gravity_index: the six p95_* values
    multipliers,    \* calculate_gravity_index: the six *_multiplier values
    gravity_scores  \* calculate_gravity_index: the returned (ordered) dict

vars == <<notes, links, backlinks, all_notes, pc, pending, cur, nlinks,
          lastLink, iterations, round, pagerank, new_pagerank, contributors,
          p95_values, p95_result, percentiles, multipliers, gravity_scores>>

graphVars == <<notes, links, backlinks, all_notes>>
scanVars  == <<pending, cur, nlinks, lastLink>>
prVars    == <<iterations, round, pagerank, new_pagerank, contributors>>
p95Vars   == <<p95_values, p95_result>>
scoreVars == <<percentiles, multipliers, gravity_scores>>

---------------------------------------------------------------------------
(* Bounds *)

NumNotes == 3       \* note identifiers are 1..NumNotes
MaxLinks == 3       \* wiki links read during one scan

NoteIds == 1..NumNotes

---------------------------------------------------------------------------
(* Dicts and sets *)

EmptyDict == <<>>

Get(d, k) == IF k \in DOMAIN d THEN d[k] ELSE {}

\* the members of a set of note identifiers, in ascending order
AscSeq(S) ==
    [i \in 1..Cardinality(S) |->
        CHOOSE x \in S : Cardinality({y \in S : y < x}) = i - 1]

\* the sequence s with every entry evaluated
Listed(s) == SubSeq(s, 1, Len(s))

\* d[k].add(v) on a defaultdict(set)
AddTo(d, k, v) ==
    [x \in DOMAIN d \cup {k} |-> IF x = k THEN Get(d, k) \cup {v} ELSE d[x]]

---------------------------------------------------------------------------
(* scan_vault *)

\* A wiki link [[target]] or [[target|alias]] as found by re.findall
WikiLinks == [target : NoteIds, alias : BOOLEAN]

\* link.split('|')[0].strip()
link_target(link) == link.target

\* self.backlinks[link_target].add(note_name), arguments swapped
AddBacklinkSwapped(bl, note_name, target) == AddTo(bl, note_name, target)

\* self.links[note_name] ^= {link_target}: a second insertion removes the edge
AddLinkToggle(ln, note_name, target) ==
    [x \in DOMAIN ln \cup {note_name} |->
        IF x = note_name
        THEN (Get(ln, x) \cup {target}) \ (Get(ln, x) \cap {target})
        ELSE ln[x]]

\* self.links[note_name].add(link_target)
AddLink(ln, note_name, target) == AddTo(ln, note_name, target)

\* self.backlinks[link_target].add(note_name)
AddBacklink(bl, note_name, target) == AddTo(bl, target, note_name)

\* the analyzer as constructed, and no scan under way
Unscanned ==
    /\ notes = {}
    /\ links = EmptyDict
    /\ backlinks = EmptyDict
    /\ all_notes = {}
    /\ pending = {}
    /\ cur = 0
    /\ nlinks = 0
    /\ lastLink = <<0, 0>>

ScanInit == Unscanned /\ pc = "find"

\* first loop: a markdown file outside the skipped folders is found
FindFile(n) ==
    /\ pc = "find"
    /\ n \notin notes
    /\ notes' = notes \cup {n}
    /\ all_notes' = all_notes \cup {n}
    /\ UNCHANGED <<links, backlinks, pc, pending, cur, nlinks, lastLink>>
    /\ UNCHANGED <<prVars, p95Vars, scoreVars>>

\* the first loop ends; the second loop starts over self.notes
StartLinks ==
    /\ pc = "find"
    /\ pc' = "links"
    /\ pending' = notes
    /\ UNCHANGED <<graphVars, cur, nlinks, lastLink>>
    /\ UNCHANGED <<prVars, p95Vars, scoreVars>>

\* the file of the next note is opened and read
OpenFile(n) ==
    /\ pc = "links"
    /\ cur = 0
    /\ n \in pending
    /\ cur' = n
    /\ pending' = pending \ {n}
    /\ UNCHANGED <<graphVars, pc, nlinks, lastLink>>
    /\ UNCHANGED <<prVars, p95Vars, scoreVars>>

\* open or read raises: the except clause prints and the loop goes on
ReadError(n) ==
    /\ pc = "links"
    /\ cur = 0
    /\ n \in pending
    /\ pending' = pending \ {n}
    /\ UNCHANGED <<graphVars, pc, cur, nlinks, lastLink>>
    /\ UNCHANGED <<prVars, p95Vars, scoreVars>>

\* one pass of "for link in wiki_links"
ScanLink(link) ==
    /\ pc = "links"
    /\ cur # 0
    /\ nlinks < MaxLinks
    /\ LET t == link_target(link) IN
        /\ links' = AddLink(links, cur, t)
        /\ backlinks' = AddBacklink(backlinks, cur, t)
        /\ all_notes' = all_notes \cup {t}
        /\ lastLink' = <<cur, t>>
    /\ nlinks' = nlinks + 1
    /\ UNCHANGED <<notes, pc, pending, cur>>
    /\ UNCHANGED <<prVars, p95Vars, scoreVars>>

\* the links of the current file are exhausted
CloseFile ==
    /\ pc = "links"
    /\ cur # 0
    /\ cur' = 0
    /\ UNCHANGED <<graphVars, pc, pending, nlinks, lastLink>>
    /\ UNCHANGED <<prVars, p95Vars, scoreVars>>

ScanDone ==
    /\ pc = "links"
    /\ cur = 0
    /\ pending = {}
    /\ pc' = "scanned"
    /\ UNCHANGED <<graphVars, scanVars>>
    /\ UNCHANGED <<prVars, p95Vars, scoreVars>>

\* no call of calculate_pagerank under way
PRIdle ==
    /\ iterations = 0
    /\ round = 0
    /\ pagerank = EmptyDict
    /\ new_pagerank = EmptyDict
    /\ contributors = {}

\* no call of get_95th_percentile on its own under way
P95Idle ==
    /\ p95_values = <<>>
    /\ p95_result = 0

\* no result of calculate_gravity_index yet
ScoreIdle ==
    /\ percentiles = EmptyDict
    /\ multipliers = EmptyDict
    /\ gravity_scores = <<>>

Idle == PRIdle /\ P95Idle /\ ScoreIdle

Init == ScanInit /\ Idle

Next ==
    \/ \E n \in NoteIds : FindFile(n)
    \/ StartLinks
    \/ \E n \in NoteIds : OpenFile(n)
    \/ \E n \in NoteIds : ReadError(n)
    \/ \E link \in WikiLinks : ScanLink(link)
    \/ CloseFile
    \/ ScanDone

Spec == Init /\ [][Next]_vars

---------------------------------------------------------------------------
(* scan_vault: claims *)

\* C1. Adjacency symmetry: after any sequence of edge insertions, for all
\* notes a and b, b is in links[a] if and only if a is in backlinks[b].
C1_AdjacencySymmetry ==
    \A a \in NoteIds : \A b \in NoteIds :
        b \in Get(links, a) <=> a \in Get(backlinks, b)

\* a scan that read at least two links, one of them a forward reference
C1_Witness ==
    /\ pc = "scanned"
    /\ nlinks >= 2
    /\ \E a \in NoteIds : \E b \in NoteIds :
        /\ a # b
        /\ b \in Get(links, a)
        /\ a \in Get(backlinks, b)
        /\ a \notin Get(links, b)

\* C2. Idempotent ingestion: a step that inserts the edge inserted by the
\* step before it leaves links, backlinks and all_notes as they were.
C2_IdempotentIngestion ==
    [][(nlinks' = nlinks + 1 /\ nlinks >= 1 /\ lastLink' = lastLink)
        => (links' = links /\ backlinks' = backlinks /\ all_notes' = all_notes)]_vars

EdgeCount == Cardinality({e \in NoteIds \X NoteIds : e[2] \in Get(links, e[1])})

\* more links were read than there are edges: some edge was inserted twice
C2_Witness ==
    /\ nlinks >= 2
    /\ EdgeCount < nlinks
    /\ lastLink[2] \in Get(links, lastLink[1])

---------------------------------------------------------------------------
(* The graph scan_vault leaves behind, as a function of the vault *)

RECURSIVE SumCard(_, _)
SumCard(f, S) ==
    IF S = {} THEN 0
    ELSE LET x == CHOOSE y \in S : TRUE IN Cardinality(f[x]) + SumCard(f, S \ {x})

\* A vault: the markdown files and, per file, the targets of its wiki links
Vaults ==
    UNION {
        {[files |-> F, content |-> c] :
            c \in {c \in [F -> SUBSET NoteIds] : SumCard(c, F) <= MaxLinks}}
        : F \in SUBSET NoteIds}

Targets(v) == UNION {v.content[f] : f \in v.files}

\* the state scan_vault ends in when it reads vault v
Scanned(v) ==
    /\ notes = v.files
    /\ links = [n \in {f \in v.files : v.content[f] # {}} |-> v.content[n]]
    /\ backlinks = [t \in Targets(v) |-> {f \in v.files : t \in v.content[f]}]
    /\ all_notes = v.files \cup Targets(v)
    /\ pending = {}
    /\ cur = 0
    /\ nlinks = 0
    /\ lastLink = <<0, 0>>

\* every scan ends in the graph of some vault
ScanEndsInVaultGraph ==
    pc = "scanned" =>
        \E v \in Vaults :
            /\ notes = v.files
            /\ links = [n \in {f \in v.files : v.content[f] # {}} |-> v.content[n]]
            /\ backlinks = [t \in Targets(v) |-> {f \in v.files : t \in v.content[f]}]
            /\ all_notes = v.files \cup Targets(v)

---------------------------------------------------------------------------
(* Numbers.  calculate_pagerank is evaluated in one of two arithmetics:    *)
(* "exact" (a float is the rational it stands for, in lowest terms) and    *)
(* "fixed" (a float is rounded down to a multiple of 1/PRScale), the       *)
(* latter for the 50 rounds calculate_gravity_index asks for.              *)

MaxIter == 3            \* largest iterations argument explored stepwise
FixBase == 100          \* a "fixed" float has two digits of base FixBase
Scale == FixBase * FixBase      \* "fixed" floats are multiples of 1/Scale
PRScale == Scale * Scale        \* "fixed" ranks are multiples of 1/PRScale

DampingPct == 85        \* damping=0.85
DefaultIterations == 50 \* iterations=50

RECURSIVE Gcd(_, _)
Gcd(a, b) == IF b = 0 THEN a ELSE Gcd(b, a % b)

RatOf(n, d) == LET g == Gcd(n, d) IN [n |-> n \div g, d |-> d \div g]

RatAdd(a, b) ==
    LET l == (a.d \div Gcd(a.d, b.d)) * b.d
    IN  RatOf(a.n * (l \div a.d) + b.n * (l \div b.d), l)

RatMul(a, b) ==
    LET g1 == Gcd(a.n, b.d)
        g2 == Gcd(b.n, a.d)
    IN  RatOf((a.n \div g1) * (b.n \div g2), (a.d \div g2) * (b.d \div g1))

RatLess(a, b) ==
    LET l == (a.d \div Gcd(a.d, b.d)) * b.d
    IN  a.n * (l \div a.d) < b.n * (l \div b.d)

Damping == RatOf(DampingPct, 100)

\* 1.0 / len(notes)
NumInit(N, ar) ==
    IF ar = "exact" THEN RatOf(1, N) ELSE PRScale \div N

\* (1 - damping) / len(notes), with the damping left out: 1 / len(notes)
NumBaseUndamped(N, ar) == NumInit(N, ar)

\* (1 - damping) / len(notes)
NumBase(N, ar) ==
    IF ar = "exact"
    THEN RatMul(RatOf(Damping.d - Damping.n, Damping.d), RatOf(1, N))
    ELSE ((Damping.d - Damping.n) * PRScale) \div (Damping.d * N)

\* damping * pagerank[linking_note] / outgoing_count
NumTerm(x, outgoing_count, ar) ==
    IF ar = "exact"
    THEN RatMul(RatMul(Damping, x), RatOf(1, outgoing_count))
    ELSE (Damping.n * x) \div (Damping.d * outgoing_count)

\* new_pr += ...
NumAdd(x, y, ar) == IF ar = "exact" THEN RatAdd(x, y) ELSE x + y

NumZero(ar) == IF ar = "exact" THEN RatOf(0, 1) ELSE 0

---------------------------------------------------------------------------
(* calculate_pagerank *)

\* the linking notes whose rank the inner loop adds to new_pr
Contributing(note, pr) ==
    {m \in Get(backlinks, note) :
        m \in DOMAIN pr /\ Cardinality(Get(links, m)) > 0}

\* the sum of the entries lo..hi of a sequence of numbers
RECURSIVE SumSeq(_, _, _, _)
SumSeq(s, lo, hi, ar) ==
    IF lo > hi THEN NumZero(ar)
    ELSE IF lo = hi THEN s[lo]
    ELSE LET mid == (lo + hi) \div 2
         IN  NumAdd(SumSeq(s, lo, mid, ar), SumSeq(s, mid + 1, hi, ar), ar)

\* what "for linking_note in ..." adds to new_pr for the linking notes M
SumTerms(M, pr, ar) ==
    LET ms == AscSeq(M)
        terms == Listed([i \in 1..Len(ms) |->
                    NumTerm(pr[ms[i]], Cardinality(Get(links, ms[i])), ar)])
    IN  SumSeq(terms, 1, Len(terms), ar)

SumDangling(M, pr, ar) ==
    LET ms == AscSeq(M)
        terms == Listed([i \in 1..Len(ms) |->
                    NumTerm(pr[ms[i]], Cardinality(all_notes), ar)])
    IN  SumSeq(terms, 1, Len(terms), ar)

\* new_pr with the rank of the notes without outgoing links handed out to
\* every note (the classical correction, which the code does not make)
new_pr_redistributing(note, pr, ar) ==
    NumAdd(NumAdd(NumBase(Cardinality(all_notes), ar),
                  SumTerms(Contributing(note, pr), pr, ar), ar),
           SumDangling({m \in DOMAIN pr : Get(links, m) = {}}, pr, ar), ar)

\* the body of "for note in notes": the value stored in new_pagerank[note]
new_pr(note, pr, ar) ==
    NumAdd(NumBase(Cardinality(all_notes), ar),
           SumTerms(Contributing(note, pr), pr, ar), ar)

\* one pass of "for _ in range(iterations)"
pagerank_round(pr, ar) == [note \in all_notes |-> new_pr(note, pr, ar)]

RECURSIVE pagerank_rounds(_, _, _)
pagerank_rounds(pr, k, ar) ==
    IF k = 0 \/ pr = EmptyDict THEN pr
    ELSE pagerank_rounds(pagerank_round(pr, ar), k - 1, ar)

\* pagerank = {note: 1.0 / len(notes) for note in notes}
initial_pagerank(ar) == [note \in all_notes |-> NumInit(Cardinality(all_notes), ar)]

\* calculate_pagerank(iterations, damping=0.85)
calculate_pagerank(iters, ar) ==
    IF all_notes = {} THEN EmptyDict
    ELSE pagerank_rounds(initial_pagerank(ar), iters, ar)

\* the ranks a round reads, if new_pagerank were written in place
PrevRanksInPlace(pr, new) ==
    [m \in DOMAIN pr |-> IF m \in DOMAIN new THEN new[m] ELSE pr[m]]

\* the ranks a round reads: pagerank, which the round does not write
PrevRanks(pr, new) == pr

PRInit ==
    /\ \E v \in Vaults : Scanned(v)
    /\ pc = "pr_entry"
    /\ iterations \in 0..MaxIter
    /\ round = 0
    /\ pagerank = EmptyDict
    /\ new_pagerank = EmptyDict
    /\ contributors = {}
    /\ P95Idle
    /\ ScoreIdle

\* "if not notes: return {}"
PRReturnEmpty ==
    /\ pc = "pr_entry"
    /\ all_notes = {}
    /\ pc' = "pr_done"
    /\ UNCHANGED <<graphVars, scanVars, prVars, p95Vars, scoreVars>>

\* pagerank = {note: 1.0 / len(notes) for note in notes}
PRStart ==
    /\ pc = "pr_entry"
    /\ all_notes # {}
    /\ pagerank' = initial_pagerank("exact")
    /\ pc' = "pr_loop"
    /\ UNCHANGED <<graphVars, scanVars, iterations, round, new_pagerank,
                   contributors, p95Vars, scoreVars>>

\* one pass of "for note in notes"; the notes of a round in any order
PRNote(note) ==
    /\ pc = "pr_loop"
    /\ round < iterations
    /\ note \in all_notes \ DOMAIN new_pagerank
    /\ LET pr == PrevRanks(pagerank, new_pagerank) IN
        /\ new_pagerank' =
            [n \in DOMAIN new_pagerank \cup {note} |->
                IF n = note THEN new_pr(note, pr, "exact") ELSE new_pagerank[n]]
        /\ contributors' = contributors \cup Contributing(note, pr)
    /\ UNCHANGED <<graphVars, scanVars, pc, iterations, round, pagerank,
                   p95Vars, scoreVars>>

\* pagerank = new_pagerank
PREndRound ==
    /\ pc = "pr_loop"
    /\ round < iterations
    /\ DOMAIN new_pagerank = all_notes
    /\ pagerank' = new_pagerank
    /\ new_pagerank' = EmptyDict
    /\ round' = round + 1
    /\ UNCHANGED <<graphVars, scanVars, pc, iterations, contributors,
                   p95Vars, scoreVars>>

\* return pagerank
PRReturn ==
    /\ pc = "pr_loop"
    /\ round = iterations
    /\ pc' = "pr_done"
    /\ UNCHANGED <<graphVars, scanVars, prVars, p95Vars, scoreVars>>

PRNext ==
    \/ PRReturnEmpty
    \/ PRStart
    \/ \E note \in NoteIds : PRNote(note)
    \/ PREndRound
    \/ PRReturn

SpecPR == PRInit /\ [][PRNext]_vars

---------------------------------------------------------------------------
(* calculate_pagerank: claims *)

RECURSIVE SumRanks(_, _)
SumRanks(pr, S) ==
    IF S = {} THEN RatOf(0, 1)
    ELSE LET x == CHOOSE y \in S : TRUE IN RatAdd(pr[x], SumRanks(pr, S \ {x}))

TotalRank(pr) == SumRanks(pr, DOMAIN pr)

RatOne == RatOf(1, 1)

\* |1 - x| as a rational
DistToOne(x) ==
    IF RatLess(x, RatOne) THEN RatOf(x.d - x.n, x.d) ELSE RatOf(x.n - x.d, x.d)

ZeroOutdegree == {n \in all_notes : Get(links, n) = {}}

\* C5. PageRank leakage: in a graph with a note of outdegree 0 the ranks
\* sum to strictly less than 1 after every round from the first on, and no
\* round adds the rank of a note of outdegree 0 to the rank of any note.
C5_PageRankLeakage ==
    (pc \in {"pr_loop", "pr_done"} /\ ZeroOutdegree # {}) =>
        /\ round >= 1 => RatLess(TotalRank(pagerank), RatOne)
        /\ contributors \cap ZeroOutdegree = {}

\* two rounds were run on a graph with an edge into a note of outdegree 0
C5_Witness ==
    /\ pc = "pr_done"
    /\ round >= 2
    /\ \E x \in ZeroOutdegree : Get(backlinks, x) # {}
    /\ contributors # {}

\* C6. PageRank mass conservation: in a non-empty graph where every note
\* has outdegree >= 1, the sum of the ranks returned after `iterations`
\* rounds is no further from 1 than the sum after any smaller number of
\* rounds.
C6_MassConservation ==
    (pc = "pr_done" /\ all_notes # {} /\ ZeroOutdegree = {}) =>
        \A j \in 0..iterations :
            ~RatLess(DistToOne(TotalRank(calculate_pagerank(j, "exact"))),
                     DistToOne(TotalRank(pagerank)))

\* two rounds were run on a graph of two or more notes, all with outdegree
\* >= 1, whose ranks differ
C6_Witness ==
    /\ pc = "pr_done"
    /\ round >= 2
    /\ ZeroOutdegree = {}
    /\ \E a \in all_notes : \E b \in all_notes : pagerank[a] # pagerank[b]

\* C10. Synchronous rounds: whatever the order in which the notes of a
\* round are processed, the mapping returned is the one obtained by
\* computing every round from the previous round's ranks alone, and a
\* non-empty graph is returned after exactly `iterations` rounds.
C10_SynchronousRounds ==
    pc = "pr_done" =>
        /\ pagerank = calculate_pagerank(iterations, "exact")
        /\ new_pagerank = EmptyDict
        /\ all_notes # {} => round = iterations

\* two rounds were run on a graph in which a note links to another one
C10_Witness ==
    /\ pc = "pr_done"
    /\ round >= 2
    /\ \E a \in all_notes : \E b \in all_notes :
        a # b /\ b \in Get(links, a) /\ pagerank[a] # pagerank[b]

---------------------------------------------------------------------------
(* Floats of calculate_gravity_index: a value x is the integer             *)
(* floor(x * Scale).  Products and quotients are computed limb by limb so  *)
(* that no intermediate result leaves the 32-bit range.                    *)


Fix(n) == n * Scale

\* the decimal literal n/d (1.5 is Dec(15, 10))
Dec(n, d) == (n * Scale) \div d

Max(a, b) == IF a >= b THEN a ELSE b
Min(a, b) == IF a <= b THEN a ELSE b

\* floor(a * b / Scale), a, b >= 0
MulFix(a, b) ==
    (a \div Scale) * (b \div Scale) * Scale
    + (a \div Scale) * (b % Scale)
    + (a % Scale) * (b \div Scale)
    + ((a % Scale) * (b % Scale)) \div Scale

\* floor(a * Scale / b) up to one unit, a >= 0, b > 0
DivFix(a, b) ==
    LET r1 == a % b
        d1 == (r1 * FixBase) \div b
        r2 == (r1 * FixBase) % b
    IN  (a \div b) * Scale + d1 * FixBase + (r2 * FixBase) \div b

\* 2 * atanh(z) = 2 (z + z^3/3 + z^5/5 + z^7/7 + z^9/9), 0 <= z <= 1/3
TwoAtanh(z) ==
    LET z2 == MulFix(z, z)
        z3 == MulFix(z, z2)
        z5 == MulFix(z3, z2)
        z7 == MulFix(z5, z2)
        z9 == MulFix(z7, z2)
    IN  2 * (z + z3 \div 3 + z5 \div 5 + z7 \div 7 + z9 \div 9)

\* math.log(2)
Ln2 == Dec(6931, 10000)

\* math.log(x), x >= 1
RECURSIVE LnFix(_)
LnFix(x) ==
    IF x >= 2 * Scale THEN Ln2 + LnFix(x \div 2)
    ELSE TwoAtanh(DivFix(x - Scale, x + Scale))

\* r * r / Scale <= v, exactly
SquareLeq(r, v) ==
    \/ MulFix(r, r) < v
    \/ MulFix(r, r) = v /\ ((r % Scale) * (r % Scale)) % Scale = 0

RECURSIVE SqrtSearch(_, _, _)
SqrtSearch(v, lo, hi) ==
    IF lo >= hi THEN lo
    ELSE LET mid == (lo + hi + 1) \div 2
         IN  IF SquareLeq(mid, v) THEN SqrtSearch(v, mid, hi)
             ELSE SqrtSearch(v, lo, mid - 1)

\* the integer square root, by Newton's iteration from above
RECURSIVE Newton(_, _)
Newton(v, x) ==
    LET y == (x + v \div x) \div 2 IN IF y >= x THEN x ELSE Newton(v, y)

ISqrt(v) == IF v = 0 THEN 0 ELSE Newton(v, v)

\* math.sqrt(v): the largest r with r * r <= v, found between the integer
\* roots of v / Scale below and above it
SqrtFix(v) ==
    LET r == ISqrt(v) IN SqrtSearch(v, r * FixBase, (r + 1) * FixBase)

---------------------------------------------------------------------------
(* get_95th_percentile *)

MaxLen == 3     \* longest input sequence drawn value by value
MaxRamp == 22   \* longest input sequence of the form 1, 2, ..., n

\* sorted(values): the entry of s that belongs at each place
SortAsc(s) ==
    LET place(i) == Cardinality({j \in 1..Len(s) : s[j] < s[i] \/ (s[j] = s[i] /\ j < i)}) + 1
    IN  Listed([p \in 1..Len(s) |-> s[CHOOSE i \in 1..Len(s) : place(i) = p]])

IsPositive(v) == v > 0
IsNonNegative(v) == v >= 0

\* get_95th_percentile with the filter "if v >= 0"
get_95th_percentile_nonneg(values) ==
    LET sorted_vals == SortAsc(SelectSeq(values, IsNonNegative))
        idx == (95 * Len(sorted_vals)) \div 100
    IN  IF sorted_vals = <<>> THEN Fix(1)
        ELSE sorted_vals[Min(idx, Len(sorted_vals) - 1) + 1]

\* get_95th_percentile that returns 0 when no value is positive
get_95th_percentile_zero(values) ==
    LET sorted_vals == SortAsc(SelectSeq(values, IsPositive))
        idx == (95 * Len(sorted_vals)) \div 100
    IN  IF sorted_vals = <<>> THEN 0
        ELSE sorted_vals[Min(idx, Len(sorted_vals) - 1) + 1]

\* get_95th_percentile(values); int(0.95 * n) is floor(95 n / 100) for a float
get_95th_percentile(values) ==
    LET sorted_vals == SortAsc(SelectSeq(values, IsPositive))
        idx == (95 * Len(sorted_vals)) \div 100
    IN  IF sorted_vals = <<>> THEN Fix(1)
        ELSE sorted_vals[Min(idx, Len(sorted_vals) - 1) + 1]

P95Values == {Fix(0 - 1), 0, Dec(1, 2), Fix(1), Fix(2)}

P95Inputs ==
    UNION {[1..n -> P95Values] : n \in 0..MaxLen}
    \cup {[i \in 1..n |-> Fix(i)] : n \in 1..MaxRamp}
    \cup {[i \in 1..n |-> Fix(n - i)] : n \in 1..MaxRamp}

P95Init ==
    /\ Unscanned
    /\ PRIdle
    /\ ScoreIdle
    /\ p95_values \in P95Inputs
    /\ p95_result = 0
    /\ pc = "p95_entry"

P95Call ==
    /\ pc = "p95_entry"
    /\ p95_result' = get_95th_percentile(p95_values)
    /\ pc' = "p95_done"
    /\ UNCHANGED <<graphVars, scanVars, prVars, p95_values, scoreVars>>

P95Next == P95Call

SpecP95 == P95Init /\ [][P95Next]_vars

\* the number of entries of s with property below(_)
CountBelow(s, r, strict) ==
    Cardinality({i \in 1..Len(s) : IF strict THEN s[i] < r ELSE s[i] <= r})

\* C7. get_95th_percentile returns the element at 0-based index
\* min(floor(0.95 n), n - 1) of the ascending sort of the n strictly
\* positive values, and 1 when no value is strictly positive; the values
\* 1..10 yield 10 and the empty input yields 1.
C7_Percentile ==
    pc = "p95_done" =>
        LET pos == SelectSeq(p95_values, IsPositive)
            n   == Len(pos)
            idx == Min((19 * n) \div 20, n - 1)
        IN  /\ n = 0 => p95_result = Fix(1)
            /\ n > 0 =>
                /\ \E i \in 1..n : pos[i] = p95_result
                /\ CountBelow(pos, p95_result, TRUE) <= idx
                /\ idx < CountBelow(pos, p95_result, FALSE)
            /\ p95_values = [i \in 1..10 |-> Fix(i)] => p95_result = Fix(10)
            /\ p95_values = <<>> => p95_result = Fix(1)

\* 21 positive values, given in descending order with a 0 at the end: the
\* index floor(0.95 * 21) = 19 is not the last one
C7_Witness ==
    /\ pc = "p95_done"
    /\ Len(p95_values) = 22
    /\ p95_values[1] = Fix(21)
    /\ p95_values[22] = 0
    /\ p95_result = Fix(20)

---------------------------------------------------------------------------
(* calculate_gravity_index *)

ScaleMin == 20              \* 20 <= incoming
ScaleMax == 100             \* incoming <= 100
CurationMin == 15           \* outgoing >= 15
ConversationMin == 10       \* bidirectional >= 10
QualityPct == 25            \* bidirectional_efficiency > 0.25

AuthorityWeight == 25
CurationWeight == 20
ConversationWeight == 20
QualityWeight == 15
NetworkWeight == 10
IntegrationWeight == 10

incoming_of(note) == Cardinality(Get(backlinks, note))
outgoing_of(note) == Cardinality(Get(links, note))
bidirectional_of(note) == Cardinality(Get(links, note) \cap Get(backlinks, note))

\* "if incoming == 0 or outgoing == 0: continue"
IsQualifyingBoth(note) == ~(incoming_of(note) = 0 \/ outgoing_of(note) = 0)

\* not "if incoming == 0 and outgoing == 0: continue"
IsQualifying(note) == ~(incoming_of(note) = 0 /\ outgoing_of(note) = 0)

\* bidirectional / max(incoming, 1) if incoming > 0 else 0
bidirectional_efficiency(bidirectional, incoming) ==
    IF incoming > 0 THEN (bidirectional * Scale) \div Max(incoming, 1) ELSE 0

\* 1.5 if 20 < incoming <= 100 else 1.0
scale_bonus_exclusive(incoming) ==
    IF ScaleMin < incoming /\ incoming <= ScaleMax THEN Dec(15, 10) ELSE Fix(1)

scale_bonus(incoming) ==
    IF ScaleMin <= incoming /\ incoming <= ScaleMax THEN Dec(15, 10) ELSE Fix(1)

curation_bonus(outgoing) ==
    IF outgoing >= CurationMin THEN Dec(13, 10) ELSE Fix(1)

conversation_bonus(bidirectional) ==
    IF bidirectional >= ConversationMin THEN Dec(12, 10) ELSE Fix(1)

quality_bonus(efficiency) ==
    IF efficiency > Dec(QualityPct, 100) THEN Fix(2) ELSE Dec(5, 10)

\* math.sqrt(max(bidirectional, 1) * max(outgoing, 1) * max(efficiency, 0.01))
integration_index(bidirectional, outgoing, efficiency) ==
    SqrtFix(Max(bidirectional, 1) * Max(outgoing, 1) * Max(efficiency, Dec(1, 100)))

\* math.log(pagerank_scores.get(note, 0) * 10000 + 1); ranks are in 1/Scale^2
pagerank_log(pr, note) ==
    LnFix(MulFix(IF note \in DOMAIN pr THEN pr[note] ELSE 0, 10000) + Fix(1))

\* calculate_pagerank() as calculate_gravity_index calls it
pagerank_scores == calculate_pagerank(DefaultIterations, "fixed")

\* the dict appended to all_data for a note (its category left out: names
\* are not modelled)
data(note, pr) ==
    LET incoming == incoming_of(note)
        outgoing == outgoing_of(note)
        bidirectional == bidirectional_of(note)
        efficiency == bidirectional_efficiency(bidirectional, incoming)
    IN  [note |-> note,
         incoming |-> incoming,
         outgoing |-> outgoing,
         bidirectional |-> bidirectional,
         incoming_log |-> LnFix(Fix(incoming + 1)),
         outgoing_log |-> LnFix(Fix(outgoing + 1)),
         bidirectional_efficiency |-> efficiency,
         scale_bonus |-> scale_bonus(incoming),
         curation_bonus |-> curation_bonus(outgoing),
         conversation_bonus |-> conversation_bonus(bidirectional),
         quality_bonus |-> quality_bonus(efficiency),
         integration_index |-> integration_index(bidirectional, outgoing, efficiency),
         pagerank_log |-> pagerank_log(pr, note),
         exists |-> note \in notes]

\* weight / p95 if p95 > 0 else 0
multiplier(weight, p95) == IF p95 > 0 THEN DivFix(Fix(weight), p95) ELSE 0

\* "for note in self.all_notes: ... all_data.append({...})" in a given order
collect_all_data(order, pr) ==
    LET visited == SelectSeq(order, IsQualifying)
    IN  Listed([i \in 1..Len(visited) |-> data(visited[i], pr)])

\* p95_incoming_log ... p95_integration
Percentiles(all_data) ==
    LET col(f) == [i \in 1..Len(all_data) |-> all_data[i][f]]
        bid == [i \in 1..Len(all_data) |-> Fix(all_data[i].bidirectional)]
    IN  [authority    |-> get_95th_percentile(col("incoming_log")),
         curation     |-> get_95th_percentile(col("outgoing_log")),
         conversation |-> get_95th_percentile(bid),
         quality      |-> get_95th_percentile(col("bidirectional_efficiency")),
         network      |-> get_95th_percentile(col("pagerank_log")),
         integration  |-> get_95th_percentile(col("integration_index"))]

\* authority_multiplier ... integration_multiplier
Multipliers(p95) ==
    [authority    |-> multiplier(AuthorityWeight, p95.authority),
     curation     |-> multiplier(CurationWeight, p95.curation),
     conversation |-> multiplier(ConversationWeight, p95.conversation),
     quality      |-> multiplier(QualityWeight, p95.quality),
     network      |-> multiplier(NetworkWeight, p95.network),
     integration  |-> multiplier(IntegrationWeight, p95.integration)]

\* gravity_scores[note] for one entry of all_data
score(d, mult) ==
    LET authority    == MulFix(MulFix(d.incoming_log, d.scale_bonus), mult.authority)
        curation     == MulFix(MulFix(d.outgoing_log, d.curation_bonus), mult.curation)
        conversation == MulFix(MulFix(Fix(d.bidirectional), d.conversation_bonus), mult.conversation)
        quality      == MulFix(MulFix(d.bidirectional_efficiency, d.quality_bonus), mult.quality)
        network      == MulFix(d.pagerank_log, mult.network)
        integration  == MulFix(d.integration_index, mult.integration)
    IN  [note |-> d.note,
         total |-> authority + curation + conversation + quality + network + integration,
         incoming |-> d.incoming,
         outgoing |-> d.outgoing,
         bidirectional |-> d.bidirectional,
         bidirectional_efficiency |-> d.bidirectional_efficiency,
         integration_index |-> d.integration_index,
         scale_bonus |-> d.scale_bonus,
         curation_bonus |-> d.curation_bonus,
         conversation_bonus |-> d.conversation_bonus,
         quality_bonus |-> d.quality_bonus,
         authority_component |-> authority,
         curation_component |-> curation,
         conversation_component |-> conversation,
         quality_component |-> quality,
         network_component |-> network,
         integration_component |-> integration,
         exists |-> d.exists]

\* "for data in all_data: ... gravity_scores[note] = {...}"
collect_scores(all_data, mult) ==
    Listed([i \in 1..Len(all_data) |-> score(all_data[i], mult)])

\* sorted(..., key=total, reverse=True): the sort is stable, entries of equal
\* total keep the order they have in s
SortDesc(s) ==
    LET place(i) ==
            Cardinality({j \in 1..Len(s) :
                s[j].total > s[i].total \/ (s[j].total = s[i].total /\ j < i)}) + 1
    IN  Listed([p \in 1..Len(s) |-> s[CHOOSE i \in 1..Len(s) : place(i) = p]])

Reverse(s) == [i \in 1..Len(s) |-> s[Len(s) + 1 - i]]

\* s read from its entry k + 1 on, and round to its entry k
Rotate(s, k) == [i \in 1..Len(s) |-> s[((i + k - 1) % Len(s)) + 1]]

\* The orders in which "for note in self.all_notes" may visit a set of
\* strings, which depend on the hashes of the strings: the ascending and
\* the descending order, and for a small set their rotations as well
\* (these are all the orders of a set of up to three notes)
IterationOrders(S) ==
    LET sorted == {AscSeq(S), Reverse(AscSeq(S))}
    IN  IF Cardinality(S) <= NumNotes
        THEN {Rotate(s, k) : s \in sorted, k \in 0..Cardinality(S)}
        ELSE sorted

\* A hub vault: note 1 is linked from k other notes and links to j of them
HubVault(k, j) ==
    [files |-> 1..(k + 1),
     content |-> [f \in 1..(k + 1) |-> IF f = 1 THEN 2..(j + 1) ELSE {1}]]

\* hub vaults on either side of every bonus threshold, and one of 41 notes
\* of which only two have a bidirectional link, so that the entry at index
\* floor(0.95 * 41) = 38 of the sorted bidirectional counts is 0
HubVaults ==
    {HubVault(s[1], s[2]) :
        s \in {<<ScaleMin - 1, ConversationMin - 1>>,
               <<ScaleMin, ScaleMin \div 4>>,
               <<ScaleMin, ScaleMin \div 4 + 1>>,
               <<ScaleMin, ConversationMin>>,
               <<ScaleMin, CurationMin - 1>>,
               <<ScaleMin, CurationMin>>,
               <<ScaleMax, CurationMin>>,
               <<ScaleMax + 1, CurationMin>>,
               <<2 * ScaleMin, 1>>}}

GravityInit ==
    /\ \E v \in Vaults \cup HubVaults : Scanned(v)
    /\ pc = "gravity_entry"
    /\ Idle

\* pagerank_scores = self.calculate_pagerank()
GravityPageRank ==
    /\ pc = "gravity_entry"
    /\ pagerank' = pagerank_scores
    /\ pc' = "gravity_collect"
    /\ UNCHANGED <<graphVars, scanVars, iterations, round, new_pagerank,
                   contributors, p95Vars, scoreVars>>

\* the rest of calculate_gravity_index when "if not all_data: return {}"
GravityNoConnections ==
    /\ pc = "gravity_collect"
    /\ {note \in all_notes : IsQualifying(note)} = {}
    /\ gravity_scores' = <<>>
    /\ pc' = "gravity_done"
    /\ UNCHANGED <<graphVars, scanVars, prVars, p95Vars, percentiles, multipliers>>

\* the rest of calculate_gravity_index when some note has a connection
CalculateGravity ==
    /\ pc = "gravity_collect"
    /\ {note \in all_notes : IsQualifying(note)} # {}
    /\ \E order \in IterationOrders(all_notes) :
         LET all_data == collect_all_data(order, pagerank)
             p95 == Percentiles(all_data)
             mult == Multipliers(p95)
         IN  /\ percentiles' = p95
             /\ multipliers' = mult
             /\ gravity_scores' = SortDesc(collect_scores(all_data, mult))
    /\ pc' = "gravity_done"
    /\ UNCHANGED <<graphVars, scanVars, prVars, p95Vars>>

GravityNext ==
    \/ GravityPageRank
    \/ GravityNoConnections
    \/ CalculateGravity

SpecGravity == GravityInit /\ [][GravityNext]_vars

---------------------------------------------------------------------------
(* calculate_gravity_index: claims *)

Scored == {gravity_scores[i].note : i \in DOMAIN gravity_scores}

\* C3. The result is ordered by total descending, and two notes of equal
\* total appear in ascending order of note identifier, whatever the order
\* in which the notes were iterated.
C3_RankedWithTieBreak ==
    pc = "gravity_done" =>
        \A i \in DOMAIN gravity_scores : \A j \in DOMAIN gravity_scores :
            i < j =>
                \/ gravity_scores[i].total > gravity_scores[j].total
                \/ /\ gravity_scores[i].total = gravity_scores[j].total
                   /\ gravity_scores[i].note < gravity_scores[j].note

\* C4. The notes with a score record are exactly the notes of all_notes
\* with an incoming or an outgoing edge, each once; a link target without
\* a file gets a record marked as not existing; the result is empty when
\* all_notes is empty or every note is isolated.
C4_ScoredSet ==
    pc = "gravity_done" =>
        /\ Scored = {n \in all_notes : Get(backlinks, n) # {} \/ Get(links, n) # {}}
        /\ Len(gravity_scores) = Cardinality(Scored)
        /\ \A i \in DOMAIN gravity_scores :
            gravity_scores[i].exists <=> gravity_scores[i].note \in notes
        /\ \A x \in all_notes \ notes :
            \E i \in DOMAIN gravity_scores :
                /\ gravity_scores[i].note = x
                /\ gravity_scores[i].incoming >= 1
                /\ gravity_scores[i].outgoing = 0
                /\ ~gravity_scores[i].exists
        /\ (\A n \in all_notes : Get(backlinks, n) = {} /\ Get(links, n) = {})
            => gravity_scores = <<>>

\* a vault with an isolated file, and a file linking to a note without file
C4_Witness ==
    /\ pc = "gravity_done"
    /\ \E n \in notes : n \notin Scored
    /\ \E x \in all_notes \ notes : x \in Scored

\* the metrics whose value the score record keeps
DegenerateMetrics == {"conversation", "quality"}

MetricValue(r, metric) ==
    IF metric = "conversation" THEN r.bidirectional ELSE r.bidirectional_efficiency

MetricComponent(r, metric) ==
    IF metric = "conversation" THEN r.conversation_component ELSE r.quality_component

MetricWeight(metric) == IF metric = "conversation" THEN 20 ELSE 15

\* the 95th percentile of a metric over all the qualifying notes: the entry
\* at index min(floor(0.95 n), n - 1) of the ascending sort of its n values
PercentileOverAll(metric) ==
    LET n == Len(gravity_scores)
        idx == Min((19 * n) \div 20, n - 1)
    IN  CHOOSE v \in {MetricValue(gravity_scores[i], metric) : i \in 1..n} :
            /\ Cardinality({i \in 1..n : MetricValue(gravity_scores[i], metric) < v}) <= idx
            /\ idx < Cardinality({i \in 1..n : MetricValue(gravity_scores[i], metric) <= v})

\* C8 as stated. When the 95th percentile of a metric is 0 over the
\* qualifying notes, that component's multiplier is 0 and the component is
\* 0 in every record.
C8_MultiplierForcedToZero ==
    (pc = "gravity_done" /\ gravity_scores # <<>>) =>
        \A metric \in DegenerateMetrics :
            PercentileOverAll(metric) = 0 =>
                /\ multipliers[metric] = 0
                /\ \A i \in DOMAIN gravity_scores :
                    MetricComponent(gravity_scores[i], metric) = 0

\* C8 as amended. No multiplier is forced to 0: every percentile the run
\* computes is strictly positive and so is every multiplier. When no
\* qualifying note has a strictly positive value of a metric,
\* get_95th_percentile returns 1, the multiplier is the target weight
\* (weight / 1) and the component is 0 in every record.
C8_DegenerateMetric ==
    (pc = "gravity_done" /\ gravity_scores # <<>>) =>
        /\ \A metric \in DOMAIN multipliers :
            percentiles[metric] > 0 /\ multipliers[metric] > 0
        /\ \A metric \in DegenerateMetrics :
            (\A i \in DOMAIN gravity_scores : MetricValue(gravity_scores[i], metric) <= 0) =>
                /\ percentiles[metric] = Fix(1)
                /\ multipliers[metric] = Fix(MetricWeight(metric))
                /\ \A i \in DOMAIN gravity_scores :
                    MetricComponent(gravity_scores[i], metric) = 0

\* three notes in a cycle: no note has a bidirectional link
C8_Witness ==
    /\ pc = "gravity_done"
    /\ Len(gravity_scores) = 3
    /\ percentiles.conversation = Fix(1)
    /\ multipliers.conversation = Fix(20)
    /\ multipliers.quality = Fix(15)
    /\ \A i \in DOMAIN gravity_scores :
        /\ gravity_scores[i].incoming = 1
        /\ gravity_scores[i].outgoing = 1
        /\ gravity_scores[i].bidirectional = 0
        /\ gravity_scores[i].conversation_component = 0
        /\ gravity_scores[i].quality_component = 0

\* the links of the graph are those of two notes linking to each other
IsMutualPair ==
    /\ Cardinality(DOMAIN links) = 2
    /\ \E a \in DOMAIN links : \E b \in DOMAIN links :
        a # b /\ links[a] = {b} /\ links[b] = {a}

\* the links of the graph are those of a cycle of three notes
IsThreeCycle ==
    /\ Cardinality(DOMAIN links) = 3
    /\ \E a \in DOMAIN links : \E b \in DOMAIN links : \E c \in DOMAIN links :
        /\ Cardinality({a, b, c}) = 3
        /\ links[a] = {b} /\ links[b] = {c} /\ links[c] = {a}

===========================================================================
